---- MODULE Spec2Model ----
(***************************************************************************)
(* The cursor state machine of psycopg2ct/_impl/cursor.py over an abstract *)
(* libpq: result handles with manual release, a server-side portal for     *)
(* named cursors, and the generator that implements cursor iteration.      *)
(*                                                                         *)
(* Every method of Cursor is an operator from one "world" (a record of the *)
(* cursor's, the connection's and the native library's fields) to the set  *)
(* of worlds the call can end in; the set has more than one element where  *)
(* the native library or the server decides the outcome.  An action draws  *)
(* the inputs of one call, applies the operator and commits the result.    *)
(***************************************************************************)
EXTENDS Integers, Sequences, FiniteSets, TLC

\* ---------------------------------------------------------------- bounds
MaxRows == 3        \* rows of a result set
MaxFields == 1      \* columns of a result set
MaxHandles == 2     \* result handles the native library can hold at once
MaxIterSize == 2    \* cursor.itersize
MaxSize == 2        \* the size argument of fetchmany
MaxParams == 2      \* parameter sets of one executemany
MaxResult == 4      \* yields the consumer of an iteration records
MaxPieces == 4      \* pieces (characters, placeholders) of a template
MaxArgs == 2        \* values in a tuple of parameters (at most 3)

\* ------------------------------------------------------------ vocabulary
\* The defaults Cursor.__init__ sets.
ARRAYSIZE == 1
ITERSIZE == 2000

\* The wire type whose typecast is the fallback of every lookup, and the
\* wire types of the model: that one and one that has no built-in typecast.
UNKNOWN == 705
Oids == {UNKNOWN, UNKNOWN + 1}

None == <<>>
Some(x) == <<x>>

PGRES_EMPTY_QUERY == "PGRES_EMPTY_QUERY"
PGRES_COMMAND_OK == "PGRES_COMMAND_OK"
PGRES_TUPLES_OK == "PGRES_TUPLES_OK"
PGRES_BAD_RESPONSE == "PGRES_BAD_RESPONSE"
PGRES_FATAL_ERROR == "PGRES_FATAL_ERROR"

ASYNC_READ == "ASYNC_READ"
ASYNC_WRITE == "ASYNC_WRITE"

\* Cursor names: None (unnamed), the empty string, an ordinary name.
CursorNames == {None, Some(""), Some("c")}

VARIABLES
    \* Cursor
    closed, description, name, no_tuples, rowcount, rownumber, pgres,
    nfields, arraysize, itersize, withhold, query,
    \* Connection
    conn_closed, async, async_status, async_cursor,
    \* native library: the handles handed out and not released, whether one
    \* was released twice, the result behind the handle the cursor holds;
    \* and the server's portal for the named cursor
    live, double_clear, held, portal,
    \* the last call: its name, its argument (the size of fetchmany, the
    \* number of parameter sets of executemany, the value given to withhold),
    \* the native calls it made, what it raised and returned, and the status
    \* of the last statement the cursor ran
    op, arg, calls, exc, val, last_status,
    \* the generator returned by __iter__ and the list its consumer builds
    gen_active, gen_rows, result, gen_clean,
    \* the loop of a running executemany: the parameter sets still to run
    \* and its local rowcount; and the rowcounts that the executes of the
    \* last executemany reported, in order
    em_rest, em_acc, em_rowcounts,
    \* the typecast tables of the cursor, of the connection and of the
    \* typecasts module (the wire types each has an entry for), and the
    \* typecasts the cursor resolved for the columns of its row set
    typecasts, conn_typecasts, string_types, casts,
    \* the adapter registry of the adapters module: per value type, what
    \* is registered for it under the protocol ISQLQuote
    adapters

curVars == <<closed, description, name, no_tuples, rowcount, rownumber,
             pgres, nfields, arraysize, itersize, withhold, query>>
connVars == <<conn_closed, async, async_status, async_cursor>>
pqVars == <<live, double_clear, held, portal>>
callVars == <<op, arg, calls, exc, val, last_status>>
genVars == <<gen_active, gen_rows, result, gen_clean>>
manyVars == <<em_rest, em_acc>>
castVars == <<typecasts, conn_typecasts, string_types, casts>>
vars == <<curVars, connVars, pqVars, callVars, genVars, manyVars,
          em_rowcounts, castVars, adapters>>

\* The world a call starts in: the current state, nothing raised or returned.
W ==
    [closed |-> closed, description |-> description, name |-> name,
     no_tuples |-> no_tuples, rowcount |-> rowcount, rownumber |-> rownumber,
     pgres |-> pgres, nfields |-> nfields, withhold |-> withhold,
     query |-> query,
     conn_closed |-> conn_closed, async |-> async,
     async_status |-> async_status, async_cursor |-> async_cursor,
     live |-> live, double_clear |-> double_clear, held |-> held,
     portal |-> portal,
     typecasts |-> typecasts, conn_typecasts |-> conn_typecasts,
     string_types |-> string_types, casts |-> casts,
     adapters |-> adapters,
     calls |-> <<>>, exc |-> "", val |-> <<>>, last_status |-> last_status]

Commit(w) ==
    /\ closed' = w.closed
    /\ description' = w.description
    /\ name' = w.name
    /\ no_tuples' = w.no_tuples
    /\ rowcount' = w.rowcount
    /\ rownumber' = w.rownumber
    /\ pgres' = w.pgres
    /\ nfields' = w.nfields
    /\ withhold' = w.withhold
    /\ query' = w.query
    /\ conn_closed' = w.conn_closed
    /\ async' = w.async
    /\ async_status' = w.async_status
    /\ async_cursor' = w.async_cursor
    /\ live' = w.live
    /\ held' = w.held
    /\ double_clear' = w.double_clear
    /\ portal' = w.portal
    /\ calls' = w.calls
    /\ exc' = w.exc
    /\ val' = w.val
    /\ last_status' = w.last_status
    /\ typecasts' = w.typecasts
    /\ conn_typecasts' = w.conn_typecasts
    /\ string_types' = w.string_types
    /\ casts' = w.casts
    /\ adapters' = w.adapters
    /\ UNCHANGED <<arraysize, itersize>>

Raise(w, e) == [w EXCEPT !.exc = e]
Return(w, v) == [w EXCEPT !.val = v]
Call(w, f, kind, n) ==
    [w EXCEPT !.calls = Append(@, [f |-> f, kind |-> kind, n |-> n])]

\* Sequencing: the rest of a body, f[w], runs in every world w of S that
\* raised nothing.
Then(S, f) == UNION {IF w.exc = "" THEN f[w] ELSE {w} : w \in S}

\* ------------------------------------------------------- native library
\* A result handle is a number in 1..MaxHandles; 0 is the NULL handle (and
\* None).  A released handle may be handed out again.  Only the result behind
\* self._pgres can be read (PQntuples(self._pgres), ...): held is that result.
CommandOk(ct) ==
    [status |-> PGRES_COMMAND_OK, ntuples |-> 0, nfields |-> 0, base |-> 0,
     cmdtuples |-> ct]
TuplesOk(n, f, b) ==
    [status |-> PGRES_TUPLES_OK, ntuples |-> n, nfields |-> f, base |-> b,
     cmdtuples |-> Some(n)]
EmptyQuery ==
    [status |-> PGRES_EMPTY_QUERY, ntuples |-> 0, nfields |-> 0, base |-> 0,
     cmdtuples |-> None]
FatalError ==
    [status |-> PGRES_FATAL_ERROR, ntuples |-> 0, nfields |-> 0, base |-> 0,
     cmdtuples |-> None]
BadResponse ==
    [status |-> PGRES_BAD_RESPONSE, ntuples |-> 0, nfields |-> 0, base |-> 0,
     cmdtuples |-> None]
\* What introspection of NULL or of a released handle gives.
NoResult ==
    [status |-> "none", ntuples |-> 0, nfields |-> 0, base |-> 0,
     cmdtuples |-> None]

\* PQcmdTuples: the affected-row count as text, "" when there is none.
CmdTuples == {None, Some(0), Some(MaxRows)}

Min(a, b) == IF a < b THEN a ELSE b

\* What the server answers to a command: the result and the portal after it.
Server(w, cmd) ==
    LET fail == [res |-> FatalError, portal |-> w.portal]
    IN
    CASE cmd.kind = "QUERY" ->
           {[res |-> r, portal |-> w.portal] :
               r \in {CommandOk(ct) : ct \in CmdTuples}
                     \cup {TuplesOk(n, f, 0) :
                              n \in 0..MaxRows, f \in 1..MaxFields}
                     \cup {EmptyQuery, FatalError, BadResponse}}
      [] cmd.kind = "DECLARE" ->
           {fail} \cup
           {[res |-> CommandOk(None),
             portal |-> Some([total |-> n, pos |-> 0, nfields |-> f])] :
               n \in 0..MaxRows, f \in 1..MaxFields}
      [] cmd.kind = "FETCH" ->
           {fail} \cup
           IF w.portal = None \/ cmd.n < 0 THEN {}
           ELSE LET p == w.portal[1]
                    k == Min(cmd.n, p.total - p.pos)
                IN {[res |-> TuplesOk(k, p.nfields, p.pos),
                     portal |-> Some([p EXCEPT !.pos = @ + k])]}
      [] cmd.kind = "FETCH_ALL" ->
           {fail} \cup
           IF w.portal = None THEN {}
           ELSE LET p == w.portal[1]
                IN {[res |-> TuplesOk(p.total - p.pos, p.nfields, p.pos),
                     portal |-> Some([p EXCEPT !.pos = p.total])]}
      [] cmd.kind = "CLOSE" ->
           {fail} \cup
           IF w.portal = None THEN {}
           ELSE {[res |-> CommandOk(None), portal |-> None]}

\* libpq.PQexec: NULL (0) on failure to allocate or to talk to the server,
\* else a new handle and, behind it, the server's answer.
PQexec(w, cmd) ==
    LET w1 == Call(w, "PQexec", cmd.kind, cmd.n)
        free == (1..MaxHandles) \ w.live
    IN {[w |-> w1, h |-> 0, res |-> NoResult]} \cup
       IF free # {}
       THEN LET h == CHOOSE x \in free : \A y \in free : x <= y
            IN {[w |-> [w1 EXCEPT !.live = @ \cup {h}, !.portal = o.portal],
                 h |-> h, res |-> o.res] : o \in Server(w, cmd)}
       ELSE {}

\* libpq.PQclear on a non-NULL handle: releases it; on a handle already
\* released it frees memory that is no longer the caller's.
PQclear(w, h) ==
    [Call(w, "PQclear", "", h)
        EXCEPT !.live = @ \ {h},
               !.double_clear = @ \/ h \notin w.live,
               !.held = IF h = w.pgres THEN NoResult ELSE @]

\* ----------------------------------------------------------------- Cursor
\* Cursor.closed (property)
IsClosed(w) == w.closed \/ w.conn_closed

\* A _clear_pgres that releases the handle and goes on holding it: the
\* variant under which a later release frees the same handle again.
_clear_pgres_keeps_handle(w) ==
    IF w.pgres # 0 THEN PQclear(w, w.pgres) ELSE w

\* Cursor._clear_pgres
_clear_pgres(w) ==
    IF w.pgres # 0 THEN [PQclear(w, w.pgres) EXCEPT !.pgres = 0] ELSE w

\* Cursor.__del__ (the same release, written out a second time in the source)
__del__(w) ==
    IF w.pgres # 0 THEN [PQclear(w, w.pgres) EXCEPT !.pgres = 0] ELSE w

\* PQcmdTuples(self._pgres) as a native call: the text it returns is "" or
\* the decimal count.
PQcmdTuples(w) ==
    LET ct == w.held.cmdtuples
    IN IF ct = None THEN Call(w, "PQcmdTuples", "", 0)
       ELSE Call(w, "PQcmdTuples", "count", ct[1])

\* libpq.PQftype: the wire type of column i of a row set.
PQftype(i) == IF i = 1 THEN UNKNOWN + 1 ELSE UNKNOWN

\* A typecast is named by the table it was found in and the wire type it
\* is registered for there.
CastEntry(table, oid) == [exc |-> "", table |-> table, oid |-> oid]

\* A lookup that asks the typecasts module before the connection.
_get_cast_global_first(w, oid) ==
    IF oid \in w.typecasts THEN CastEntry("cursor", oid)
    ELSE IF oid \in w.string_types THEN CastEntry("global", oid)
    ELSE IF oid \in w.conn_typecasts THEN CastEntry("connection", oid)
    ELSE IF UNKNOWN \in w.string_types THEN CastEntry("global", UNKNOWN)
    ELSE [exc |-> "KeyError", table |-> "", oid |-> oid]

\* Cursor._get_cast
_get_cast(w, oid) ==
    IF oid \in w.typecasts THEN CastEntry("cursor", oid)
    ELSE IF oid \in w.conn_typecasts THEN CastEntry("connection", oid)
    ELSE IF oid \in w.string_types THEN CastEntry("global", oid)
    ELSE IF UNKNOWN \in w.string_types THEN CastEntry("global", UNKNOWN)
    ELSE [exc |-> "KeyError", table |-> "", oid |-> oid]

\* The typecasts _pq_fetch resolves for the n columns of a row set.
ColumnCasts(w, n) == [i \in 1..n |-> _get_cast(w, PQftype(i))]

\* A _pq_fetch that goes on holding the result of a command-OK statement.
_pq_fetch_keeps_command_result(w) ==
    LET r == w.held
        w1 == [w EXCEPT !.no_tuples = TRUE, !.rownumber = 0]
    IN
    CASE r.status = PGRES_COMMAND_OK ->
           [PQcmdTuples(w1) EXCEPT !.rowcount =
               IF r.cmdtuples = None THEN -1 ELSE r.cmdtuples[1]]
      [] r.status = PGRES_TUPLES_OK ->
           LET w2 == [w1 EXCEPT !.rowcount = r.ntuples,
                                !.no_tuples = FALSE,
                                !.nfields = Some(r.nfields)]
               cs == ColumnCasts(w, r.nfields)
           IN IF \E i \in 1..r.nfields : cs[i].exc # ""
              THEN Raise(w2, "KeyError")
              ELSE [w2 EXCEPT !.description = Some(r.nfields),
                              !.casts = cs]
      [] r.status = PGRES_EMPTY_QUERY -> Raise(w1, "ProgrammingError")
      [] OTHER -> Raise(w1, "OperationalError")

\* A _pq_fetch that reports an empty query as an operational error.
_pq_fetch_empty_as_operational(w) ==
    LET r == w.held
        w1 == [w EXCEPT !.no_tuples = TRUE, !.rownumber = 0]
    IN
    CASE r.status = PGRES_COMMAND_OK ->
           _clear_pgres([PQcmdTuples(w1) EXCEPT !.rowcount =
                            IF r.cmdtuples = None THEN -1 ELSE r.cmdtuples[1]])
      [] r.status = PGRES_TUPLES_OK ->
           LET w2 == [w1 EXCEPT !.rowcount = r.ntuples,
                                !.no_tuples = FALSE,
                                !.nfields = Some(r.nfields)]
               cs == ColumnCasts(w, r.nfields)
           IN IF \E i \in 1..r.nfields : cs[i].exc # ""
              THEN Raise(w2, "KeyError")
              ELSE [w2 EXCEPT !.description = Some(r.nfields),
                              !.casts = cs]
      [] OTHER -> Raise(w1, "OperationalError")

\* Cursor._pq_fetch: interpret the result the cursor holds.
_pq_fetch(w) ==
    LET r == w.held
        w1 == [w EXCEPT !.no_tuples = TRUE, !.rownumber = 0]
    IN
    CASE r.status = PGRES_COMMAND_OK ->
           _clear_pgres([PQcmdTuples(w1) EXCEPT !.rowcount =
                            IF r.cmdtuples = None THEN -1 ELSE r.cmdtuples[1]])
      [] r.status = PGRES_TUPLES_OK ->
           LET w2 == [w1 EXCEPT !.rowcount = r.ntuples,
                                !.no_tuples = FALSE,
                                !.nfields = Some(r.nfields)]
               cs == ColumnCasts(w, r.nfields)
           IN IF \E i \in 1..r.nfields : cs[i].exc # ""
              THEN Raise(w2, "KeyError")
              ELSE [w2 EXCEPT !.description = Some(r.nfields),
                              !.casts = cs]
      [] r.status = PGRES_EMPTY_QUERY -> Raise(w1, "ProgrammingError")
      [] OTHER -> Raise(w1, "OperationalError")

\* The synchronous branch of Cursor._pq_execute.
PqExecuteSync(w, cmd) ==
    {IF o.h = 0
     THEN Raise([o.w EXCEPT !.pgres = 0, !.held = NoResult,
                            !.last_status = "NULL"],
                "OperationalError")
     ELSE _pq_fetch([o.w EXCEPT !.pgres = o.h, !.held = o.res,
                                !.last_status = o.res.status])
     : o \in PQexec(w, cmd)}

\* An asynchronous branch that records needs-write when everything was
\* written and needs-read when output is pending.
PqExecuteAsync_swapped(w, cmd) ==
    LET w1 == Call(w, "PQsendQuery", cmd.kind, cmd.n)
        flushed(ret) == Call(w1, "PQflush", "", ret)
        registered(ret, s) ==
            [flushed(ret) EXCEPT !.async_status = Some(s),
                                 !.async_cursor = TRUE,
                                 !.last_status = "sent"]
    IN {Raise(w1, "OperationalError"),
        registered(0, ASYNC_WRITE),
        registered(1, ASYNC_READ),
        Raise(flushed(-1), "ValueError")}

\* The asynchronous branch: PQsendQuery (0 on failure), then PQflush
\* (0: all written, 1: output pending, anything else: an error).
PqExecuteAsync(w, cmd) ==
    LET w1 == Call(w, "PQsendQuery", cmd.kind, cmd.n)
        flushed(ret) == Call(w1, "PQflush", "", ret)
        registered(ret, s) ==
            [flushed(ret) EXCEPT !.async_status = Some(s),
                                 !.async_cursor = TRUE,
                                 !.last_status = "sent"]
    IN {Raise(w1, "OperationalError"),
        registered(0, ASYNC_READ),
        registered(1, ASYNC_WRITE),
        Raise(flushed(-1), "ValueError")}

\* Cursor._pq_execute
_pq_execute(w, cmd, is_async) ==
    IF ~is_async THEN PqExecuteSync(w, cmd) ELSE PqExecuteAsync(w, cmd)

Command(kind, n) == [kind |-> kind, n |-> n]

\* How a composition ends: with the text of the command (a sequence of
\* characters and quoted literals), or with the exception it raises.
Composed(text) == [exc |-> "", text |-> text]
Failed(e) == [exc |-> e, text |-> <<>>]

\* What composing the command of an execute can end in, whatever the
\* template: a text, when _combine_cmd_params returns (or parameters is
\* None), else what it raises.
ComposeOutcomes == {Composed(<<"s">>), Failed("ValueError")}

\* 'DECLARE "%s" CURSOR %s HOLD FOR %s' % (name, WITH or WITHOUT, query)
Declare(w, text) ==
    <<IF w.withhold THEN "DECLARE CURSOR WITH HOLD FOR "
      ELSE "DECLARE CURSOR WITHOUT HOLD FOR ">> \o text

\* An execute that sends the command without releasing the held handle.
ExecuteBody_no_release(w, composed, begun) ==
    LET w0 == [w EXCEPT !.description = None, !.last_status = "unsent"]
        w1 == [w0 EXCEPT !.query = Some(composed.text)]
        w2 == Call(w1, "_begin_transaction", "", 0)
        named == w.name # None /\ w.name # Some("")
        w4 == IF named THEN [w2 EXCEPT !.query = Some(Declare(w, composed.text))]
              ELSE w2
        cmd == IF named
               THEN Command("DECLARE", IF w.withhold THEN 1 ELSE 0)
               ELSE Command("QUERY", 0)
    IN IF composed.exc # "" THEN {Raise(w0, composed.exc)}
       ELSE IF ~begun THEN {Raise(w2, "OperationalError")}
       ELSE _pq_execute(w4, cmd, w.async)

\* Cursor.execute, below its check_closed decorator.  composed is the outcome
\* of the composition step, begun whether conn._begin_transaction() returns.
ExecuteBody(w, composed, begun) ==
    LET w0 == [w EXCEPT !.description = None, !.last_status = "unsent"]
        w1 == [w0 EXCEPT !.query = Some(composed.text)]
        w2 == Call(w1, "_begin_transaction", "", 0)
        w3 == _clear_pgres(w2)
        named == w.name # None /\ w.name # Some("")
        w4 == IF named THEN [w3 EXCEPT !.query = Some(Declare(w, composed.text))]
              ELSE w3
        cmd == IF named
               THEN Command("DECLARE", IF w.withhold THEN 1 ELSE 0)
               ELSE Command("QUERY", 0)
    IN IF composed.exc # "" THEN {Raise(w0, composed.exc)}
       ELSE IF ~begun THEN {Raise(w2, "OperationalError")}
       ELSE _pq_execute(w4, cmd, w.async)

\* check_closed around a method whose body ends in the worlds of S
check_closed(w, S) ==
    IF IsClosed(w) THEN {Raise(w, "InterfaceError")} ELSE S

\* A check_no_tuples that lets every call through.
check_no_tuples_absent(w, S) == S

\* check_no_tuples around a method whose body ends in the worlds of S
check_no_tuples(w, S) ==
    IF w.no_tuples /\ w.name = None
    THEN {Raise(w, "ProgrammingError")} ELSE S

\* Cursor.execute
execute(w, composed, begun) ==
    check_closed(w, ExecuteBody(w, composed, begun))

\* Cursor._build_row without a row factory: the exception it raises, else
\* the row it reads, named by its index in the statement's whole result
\* (-1: cells read outside the held result, which libpq reports as NULL).
_build_row(w, row_num) ==
    IF w.description = None THEN [exc |-> "TypeError", row |-> -1]
    ELSE IF w.nfields = None THEN [exc |-> "AttributeError", row |-> -1]
    ELSE IF row_num \in 0..(w.held.ntuples - 1)
         THEN [exc |-> "", row |-> w.held.base + row_num]
         ELSE [exc |-> "", row |-> -1]

\* The loop shared by fetchmany and fetchall: n > 0 rows from rownumber on.
BuildRows(w, n) ==
    LET first == _build_row(w, w.rownumber)
    IN IF first.exc # "" THEN Raise(w, first.exc)
       ELSE [w EXCEPT !.rownumber = @ + n,
                      !.val = [i \in 1..n |->
                                  _build_row(w, w.rownumber + i - 1).row]]

\* A fetch that sends nothing for a named cursor either.
NamedFetch_absent(w, cmd) == {w}

\* The FETCH a named cursor sends before it reads rows.
NamedFetch(w, cmd) ==
    IF w.name # None THEN _pq_execute(w, cmd, FALSE) ELSE {w}

\* A fetchone that returns the row and leaves the offset where it was.
FetchOneRow_no_advance(w) ==
    IF w.rownumber >= w.rowcount THEN w
    ELSE LET b == _build_row(w, w.rownumber)
         IN IF b.exc # "" THEN Raise(w, b.exc)
            ELSE [w EXCEPT !.val = <<b.row>>]

\* Cursor.fetchone; the row is returned as <<row>>, None as <<>>.
FetchOneRow(w) ==
    IF w.rownumber >= w.rowcount THEN w
    ELSE LET b == _build_row(w, w.rownumber)
         IN IF b.exc # "" THEN Raise(w, b.exc)
            ELSE [w EXCEPT !.rownumber = @ + 1, !.val = <<b.row>>]

\* The loop of _build_row over the cells of a row whose null flags the
\* library reports as nulls: the typecast of the column is called for a cell
\* that is not NULL, and its value is named by the typecast and the column.
RECURSIVE FillRow(_, _, _, _)
FillRow(w, nulls, i, row) ==
    IF i > w.nfields[1] THEN Return(w, <<row>>)
    ELSE IF nulls[i] THEN FillRow(w, nulls, i + 1, Append(row, None))
    ELSE FillRow(Call(w, "typecast", w.casts[i].table, w.casts[i].oid),
                 nulls, i + 1, Append(row, Some(w.casts[i])))

\* Cursor.fetchone on a row whose cells are told apart.
FetchOneCells(w, nulls) ==
    IF w.rownumber >= w.rowcount THEN w
    ELSE LET b == _build_row(w, w.rownumber)
         IN IF b.exc # "" THEN Raise(w, b.exc)
            ELSE FillRow([w EXCEPT !.rownumber = @ + 1], nulls, 1, <<>>)

fetchone_cells(w, nulls) ==
    LET fetched == NamedFetch(w, Command("FETCH", 1))
        body == Then(fetched, [v \in fetched |-> {FetchOneCells(v, nulls)}])
    IN check_closed(w, check_no_tuples(w, body))

fetchone(w) ==
    LET fetched == NamedFetch(w, Command("FETCH", 1))
        body == Then(fetched, [v \in fetched |-> {FetchOneRow(v)}])
    IN check_closed(w, check_no_tuples(w, body))

\* A fetchmany that does not cut size down to the rows that are left.
FetchManyRows_unclamped(w, size) ==
    LET avail == w.rowcount - w.rownumber
        n == IF size < 0 THEN avail ELSE size
    IN IF n <= 0 THEN w ELSE BuildRows(w, n)

\* Cursor.fetchmany; size is None or Some(n).
FetchManyRows(w, size) ==
    LET avail == w.rowcount - w.rownumber
        n == IF size > avail \/ size < 0 THEN avail ELSE size
    IN IF n <= 0 THEN w ELSE BuildRows(w, n)

fetchmany(w, size) ==
    LET sz == IF size = None THEN arraysize ELSE size[1]
        fetched == NamedFetch(w, Command("FETCH", sz))
        body == Then(fetched, [v \in fetched |-> {FetchManyRows(v, sz)}])
    IN check_closed(w, check_no_tuples(w, body))

\* Cursor.fetchall
FetchAllRows(w) ==
    LET n == w.rowcount - w.rownumber
    IN IF n <= 0 THEN w ELSE BuildRows(w, n)

fetchall(w) ==
    LET fetched == NamedFetch(w, Command("FETCH_ALL", 0))
        body == Then(fetched, [v \in fetched |-> {FetchAllRows(v)}])
    IN check_closed(w, check_no_tuples(w, body))

\* A close that marks the cursor closed and tells the server nothing.
CloseBody_silent(w) == {[w EXCEPT !.closed = TRUE]}

\* Cursor.close
CloseBody(w) ==
    LET sent == IF w.name # None
                THEN _pq_execute(w, Command("CLOSE", 0), FALSE) ELSE {w}
    IN Then(sent, [v \in sent |-> {[v EXCEPT !.closed = TRUE]}])

close(w) == check_closed(w, CloseBody(w))

\* Cursor.nextset (no check_closed in the source)
nextset(w) == {Raise(w, "NotImplementedError")}

\* Cursor.cast (no check_closed): resolves the typecast and applies it.
cast(w, oid) ==
    LET c == _get_cast(w, oid)
    IN {IF c.exc # "" THEN Raise(w, c.exc)
        ELSE Return(Call(w, "typecast", c.table, c.oid), <<c>>)}

\* Cursor.mogrify (no check_closed): only the composition step.
mogrify(w, composed) ==
    {IF composed.exc # "" THEN Raise(w, composed.exc)
     ELSE Return(w, composed.text)}

\* Cursor.withhold (setter); value is bool(value).
withhold_setter(w, value) ==
    IF w.name = None \/ w.name = Some("")
    THEN {Raise(w, "ProgrammingError")}
    ELSE {[w EXCEPT !.withhold = value]}

\* ---------------------------------------------------- command composition
\* A template is a string over the characters that matter to the composer:
\* the percent sign, the format character s, the parentheses of a named
\* placeholder and the space; s also serves as the letter of a key and as
\* ordinary text.  Parameters are None, a tuple or a dict with string keys;
\* a composed text is a sequence of characters and quoted literals.
Chars == {"%", "s", "(", ")", " "}

\* A template is put together from pieces: single characters, the escape
\* %% and the named placeholder %(s)s, so that short templates hold two
\* placeholders.
Pieces ==
    {<<c>> : c \in Chars} \cup {<<"%", "%">>, <<"%", "(", "s", ")", "s">>}
RECURSIVE Flatten(_)
Flatten(ps) == IF ps = <<>> THEN <<>> ELSE Head(ps) \o Flatten(Tail(ps))
Templates ==
    {Flatten(ps) : ps \in UNION {[1..k -> Pieces] : k \in 0..MaxPieces}}

ValueList == <<"a", "b", "c">>
PNone == [kind |-> "None", items |-> <<>>, pairs |-> {}]
PTuple(items) == [kind |-> "tuple", items |-> items, pairs |-> {}]
PDict(pairs) == [kind |-> "dict", items |-> <<>>, pairs |-> pairs]
ParamSets ==
    {PNone}
    \cup {PTuple(SubSeq(ValueList, 1, k)) : k \in 0..MaxArgs}
    \cup {PDict({}), PDict({<< <<"s">>, "a" >>}),
          PDict({<< <<"s">>, "a" >>, << <<>>, "b" >>})}
Statements == [template : Templates, params : ParamSets]

HasKey(pairs, key) == \E p \in pairs : p[1] = key
Lookup(pairs, key) == (CHOOSE p \in pairs : p[1] = key)[2]

\* _getquoted on a str: the adapter's quoted literal.
_getquoted(v) ==
    CASE v = "a" -> "'a'"
      [] v = "b" -> "'b'"
      [] v = "c" -> "'c'"

\* cmd[i], and str.find(ch, start, end) after the slice bounds are resolved
At(cmd, i) == cmd[i + 1]
SliceEnd(cmd, e) ==
    IF e < 0 THEN (IF Len(cmd) + e < 0 THEN 0 ELSE Len(cmd) + e)
    ELSE Min(e, Len(cmd))
Find(cmd, ch, start, end) ==
    LET hits == {i \in start..(end - 1) : At(cmd, i) = ch}
    IN IF hits = {} THEN -1 ELSE CHOOSE i \in hits : \A j \in hits : i <= j

\* check_format_char: the characters it lets through ('s ')
FormatChars == {"s", " "}

\* The while loop of _combine_cmd_params from the state s (idx, param_num,
\* arg_values, named_args_format): what it raises, else the state it ends in.
RECURSIVE ScanLoop(_, _, _)
ScanLoop(cmd, params, s) ==
    LET idx == s.idx
        stop(e) == [exc |-> e, s |-> s]
        max_lookahead == Find(cmd, "%", idx + 2, Len(cmd))
        end == Find(cmd, ")", idx + 2, SliceEnd(cmd, max_lookahead))
        key == SubSeq(cmd, idx + 3, end)
        known == HasKey(s.arg_values.pairs, key)
    IN IF idx >= Len(cmd) THEN stop("")
       ELSE IF At(cmd, idx) # "%"
       THEN ScanLoop(cmd, params, [s EXCEPT !.idx = @ + 1])
       ELSE IF idx + 1 >= Len(cmd) THEN stop("IndexError")
       ELSE IF At(cmd, idx + 1) = "%"
       THEN ScanLoop(cmd, params, [s EXCEPT !.idx = @ + 2])
       ELSE IF At(cmd, idx + 1) = "("
       THEN IF s.named = "False" THEN stop("ValueError")
            ELSE IF end < 0 THEN stop("ProgrammingError")
            ELSE IF ~known /\ params.kind # "dict" THEN stop("TypeError")
            ELSE IF ~known /\ ~HasKey(params.pairs, key)
            THEN stop("KeyError")
            ELSE IF At(cmd, end + 1) \notin FormatChars
            THEN stop("ValueError")
            ELSE ScanLoop(cmd, params,
                   [s EXCEPT !.idx = @ + 1,
                             !.named = "True",
                             !.arg_values =
                                IF known THEN @
                                ELSE PDict(@.pairs \cup
                                       {<<key, _getquoted(
                                                 Lookup(params.pairs, key))>>})])
       ELSE IF s.named = "True" THEN stop("ValueError")
       ELSE IF At(cmd, idx + 1) \notin FormatChars THEN stop("ValueError")
       ELSE IF params.kind = "None" THEN stop("TypeError")
       ELSE IF params.kind = "dict" THEN stop("KeyError")
       ELSE IF s.param_num >= Len(params.items) THEN stop("IndexError")
       ELSE ScanLoop(cmd, params,
              [s EXCEPT !.idx = @ + 2,
                        !.named = "False",
                        !.param_num = @ + 1,
                        !.arg_values =
                           PTuple(Append(@.items,
                                    _getquoted(params.items[s.param_num + 1])))])

\* The ')' that closes the key of '%(' in a format string (parentheses in a
\* key nest), or -1.
RECURSIVE MatchParen(_, _, _)
MatchParen(fmt, i, depth) ==
    IF i >= Len(fmt) THEN -1
    ELSE IF At(fmt, i) = ")"
    THEN IF depth = 1 THEN i ELSE MatchParen(fmt, i + 1, depth - 1)
    ELSE IF At(fmt, i) = "(" THEN MatchParen(fmt, i + 1, depth + 1)
    ELSE MatchParen(fmt, i + 1, depth)

\* The first character at or after i that is not the flag ' '.
RECURSIVE SkipFlags(_, _)
SkipFlags(fmt, i) ==
    IF i < Len(fmt) /\ At(fmt, i) = " " THEN SkipFlags(fmt, i + 1) ELSE i

\* Python 2's fmt % args (the module is Python 2 code: it names unicode)
\* from character i on, for args a tuple or a dict; a '%' that ends a
\* specifier, flags or not, is a literal percent sign that takes no value.
\* used counts the values taken from a tuple; for a dict, cur is the object
\* the next conversion formats (the dict itself, or the value of the last
\* key) and used whether it has been formatted.
RECURSIVE FormatLoop(_, _, _, _, _, _)
FormatLoop(fmt, args, i, used, cur, out) ==
    LET keyed == i + 1 < Len(fmt) /\ At(fmt, i + 1) = "("
        closing == MatchParen(fmt, i + 2, 1)
        key == SubSeq(fmt, i + 3, closing)
        c == SkipFlags(fmt, IF keyed THEN closing + 1 ELSE i + 1)
        isdict == args.kind = "dict"
        obj == IF keyed THEN Lookup(args.pairs, key)
               ELSE IF isdict THEN cur
               ELSE args.items[used + 1]
    IN IF i >= Len(fmt)
       THEN IF ~isdict /\ used < Len(args.items) THEN Failed("TypeError")
            ELSE Composed(out)
       ELSE IF At(fmt, i) # "%"
       THEN FormatLoop(fmt, args, i + 1, used, cur, Append(out, At(fmt, i)))
       ELSE IF keyed /\ ~isdict THEN Failed("TypeError")
       ELSE IF keyed /\ closing < 0 THEN Failed("ValueError")
       ELSE IF keyed /\ ~HasKey(args.pairs, key) THEN Failed("KeyError")
       ELSE IF c >= Len(fmt) THEN Failed("ValueError")
       ELSE IF At(fmt, c) = "%"
       THEN FormatLoop(fmt, args, c + 1, IF keyed THEN 0 ELSE used,
                       IF keyed THEN obj ELSE cur, Append(out, "%"))
       ELSE IF ~keyed /\ isdict /\ used > 0 THEN Failed("TypeError")
       ELSE IF ~keyed /\ ~isdict /\ used >= Len(args.items)
       THEN Failed("TypeError")
       ELSE IF At(fmt, c) # "s" THEN Failed("ValueError")
       ELSE FormatLoop(fmt, args, c + 1, IF isdict THEN 1 ELSE used + 1,
                       obj, Append(out, obj))

\* fmt % args
PyFormat(fmt, args) == FormatLoop(fmt, args, 0, 0, "{}", <<>>)

\* _combine_cmd_params(cmd, params, conn)
_combine_cmd_params(cmd, params) ==
    LET r == ScanLoop(cmd, params,
                      [idx |-> 0, param_num |-> 0, arg_values |-> PNone,
                       named |-> "None"])
        arg_values == r.s.arg_values
    IN IF \A i \in 1..Len(cmd) : cmd[i] # "%" THEN Composed(cmd)
       ELSE IF r.exc # "" THEN Failed(r.exc)
       ELSE IF r.s.named = "False"
               /\ Len(arg_values.items) # Len(params.items)
       THEN Failed("TypeError")
       ELSE IF arg_values.kind = "None" THEN PyFormat(cmd, PTuple(<<>>))
       ELSE PyFormat(cmd, arg_values)

\* The composition step of Cursor.execute
ExecuteComposition(query_, parameters) ==
    IF parameters # PNone THEN _combine_cmd_params(query_, parameters)
    ELSE Composed(query_)

\* Cursor.execute(query, parameters) and Cursor.mogrify(query, vars) on a
\* template and parameters that are spelled out.
execute_text(w, query_, parameters, begun) ==
    execute(w, ExecuteComposition(query_, parameters), begun)
mogrify_text(w, query_, vars_) ==
    mogrify(w, _combine_cmd_params(query_, vars_))

\* Cursor.setinputsizes and Cursor.setoutputsize
setinputsizes(w) == check_closed(w, {w})
setoutputsize(w) == check_closed(w, {w})

\* Cursor.callproc: builds the SELECT and runs execute.
callproc(w, composed, begun) ==
    check_closed(w, execute(w, composed, begun))

\* ------------------------------------------------------------- iteration
\* Cursor.__iter__ is a generator: calling it runs check_closed and returns
\* the generator; its body runs from one yield to the next on each next().
\* gen_rows are the rows of the current batch still to be yielded.

\* The cursor holds, untouched, the whole result of a row-returning
\* statement (unnamed), or its portal stands before the first row (named).
FreshResult ==
    IF name = None
    THEN /\ ~no_tuples /\ pgres # 0 /\ description # None
         /\ held.status = PGRES_TUPLES_OK
         /\ rowcount = held.ntuples
         /\ rownumber = 0
    ELSE portal # None /\ portal[1].pos = 0

\* Every call on the cursor other than next() on the generator.  The body
\* of the for loop that drives a generator does not touch the cursor: no
\* call is made while the generator is suspended.
Idle == ~gen_active /\ em_rest = 0

Finish(opname, a, S) ==
    /\ Idle
    /\ \E w \in S :
        /\ Commit(w)
        /\ op' = opname
        /\ arg' = a
        /\ gen_clean' = FALSE
        /\ result' = <<>>
        /\ em_rowcounts' = <<>>
        /\ UNCHANGED <<gen_active, gen_rows, manyVars>>

\* What the consumer of the iteration appends per yielded row:
\* (curs.rownumber, row), as the list comprehension of the test does.
Record(res, rn, row) ==
    IF Len(res) < MaxResult
    THEN Append(res, [rownumber |-> rn, row |-> row])
    ELSE res

Iter ==
    /\ Idle
    /\ em_rowcounts' = <<>>
    /\ UNCHANGED manyVars
    /\ IF IsClosed(W)
       THEN /\ Commit(Raise(W, "InterfaceError"))
            /\ gen_clean' = FALSE
            /\ result' = <<>>
            /\ UNCHANGED <<gen_active, gen_rows>>
       ELSE /\ Commit(W)
            /\ gen_active' = TRUE
            /\ gen_rows' = <<>>
            /\ result' = <<>>
            /\ gen_clean' = FreshResult
    /\ op' = "__iter__"
    /\ arg' = None

\* next() while rows of the batch are left: the for loop's next turn.
GenYield(w, rows) ==
    LET w1 == [w EXCEPT !.rownumber = @ + 1]
    IN /\ Commit([w1 EXCEPT !.val = <<Head(rows)>>])
       /\ gen_rows' = Tail(rows)
       /\ result' = Record(result, w1.rownumber, Head(rows))
       /\ gen_active' = TRUE

\* next() at the top of the while loop: fetch a batch of itersize rows.
GenFetch ==
    \E w \in fetchmany(W, Some(itersize)) :
        IF w.exc # "" \/ w.val = <<>>
        THEN /\ Commit(w)
             /\ gen_active' = FALSE
             /\ gen_rows' = <<>>
             /\ UNCHANGED result
        ELSE GenYield([w EXCEPT !.rownumber = 0], w.val)

Next_ ==
    /\ gen_active
    /\ IF gen_rows # <<>> THEN GenYield(W, gen_rows) ELSE GenFetch
    /\ op' = "next"
    /\ arg' = None
    /\ em_rowcounts' = <<>>
    /\ UNCHANGED <<gen_clean, manyVars>>

\* ---------------------------------------------------------------- actions
FetchSizes == {None} \cup {Some(n) : n \in (-1)..MaxSize}
\* Per execute: how its composition ends and whether the transaction begins
\* (which is not asked when the composition fails).
ExecInputs ==
    {<<c, b>> \in ComposeOutcomes \X BOOLEAN : c.exc # "" => b}

Execute ==
    \E in \in ExecInputs : Finish("execute", None, execute(W, in[1], in[2]))

\* Cursor.executemany over a list of n parameter sets, up to its loop: the
\* check_closed decorator, self._rowcount = -1, rowcount = 0; with an empty
\* list the loop is skipped and self._rowcount = rowcount ends the call.
ExecuteMany ==
    /\ Idle
    /\ \E n \in 0..MaxParams :
        /\ arg' = Some(n)
        /\ IF IsClosed(W)
           THEN /\ Commit(Raise(W, "InterfaceError"))
                /\ em_rest' = 0
           ELSE /\ Commit([W EXCEPT !.rowcount = IF n = 0 THEN 0 ELSE -1])
                /\ em_rest' = n
    /\ em_acc' = 0
    /\ em_rowcounts' = <<>>
    /\ op' = "executemany"
    /\ gen_clean' = FALSE
    /\ result' = <<>>
    /\ UNCHANGED <<gen_active, gen_rows>>

\* One turn of the loop of executemany: self.execute(query, params), then
\* the local rowcount; an exception leaves the loop and the call, and the
\* last turn is followed by self._rowcount = rowcount.
ExecuteManyStep ==
    /\ em_rest > 0
    /\ \E in \in ExecInputs :
       \E w \in execute(W, in[1], in[2]) :
          LET acc == IF w.rowcount = -1 THEN -1 ELSE em_acc + w.rowcount
          IN IF w.exc # ""
             THEN /\ Commit(w)
                  /\ em_rest' = 0
                  /\ em_acc' = 0
                  /\ UNCHANGED em_rowcounts
             ELSE /\ em_rest' = em_rest - 1
                  /\ em_rowcounts' = Append(em_rowcounts, w.rowcount)
                  /\ IF em_rest = 1
                     THEN /\ Commit([w EXCEPT !.rowcount = acc])
                          /\ em_acc' = 0
                     ELSE /\ Commit(w)
                          /\ em_acc' = acc
    /\ UNCHANGED <<op, arg, genVars>>
CallProc ==
    \E in \in ExecInputs : Finish("callproc", None, callproc(W, in[1], in[2]))
FetchOne == Finish("fetchone", None, fetchone(W))
FetchMany == \E size \in FetchSizes : Finish("fetchmany", size, fetchmany(W, size))
FetchAll == Finish("fetchall", None, fetchall(W))
Close == Finish("close", None, close(W))
NextSet == Finish("nextset", None, nextset(W))
Cast == \E oid \in Oids : Finish("cast", Some(oid), cast(W, oid))
Mogrify ==
    \E composed \in ComposeOutcomes : Finish("mogrify", None, mogrify(W, composed))
SetInputSizes == Finish("setinputsizes", None, setinputsizes(W))
SetOutputSize == Finish("setoutputsize", None, setoutputsize(W))
Del == Finish("__del__", None, {__del__(W)})

\* The first call on a cursor, with a spelled-out template and parameters.
ExecuteText ==
    /\ op = "__init__"
    /\ \E st \in Statements, begun \in BOOLEAN :
          Finish("execute", Some(st),
                 execute_text(W, st.template, st.params, begun))
MogrifyText ==
    /\ op = "__init__"
    /\ \E st \in Statements :
          Finish("mogrify", Some(st), mogrify_text(W, st.template, st.params))

\* typecasts.register_type(obj, scope): enters a typecast for a wire type
\* in the table of the cursor, of the connection, or of the module.
register_type(w, scope, oid) ==
    CASE scope = "cursor" -> [w EXCEPT !.typecasts = @ \cup {oid}]
      [] scope = "connection" -> [w EXCEPT !.conn_typecasts = @ \cup {oid}]
      [] scope = "global" -> [w EXCEPT !.string_types = @ \cup {oid}]
RegisterType ==
    \E scope \in {"cursor", "connection", "global"}, oid \in Oids :
        Finish("register_type", Some(oid), {register_type(W, scope, oid)})

\* ------------------------------------------------------------ adapt()
\* The types of the values handed to adapt(): object, int, its subclass
\* bool, a class of the caller's, and type, the type of a value that is
\* itself a class.
TypeNames == {"object", "int", "bool", "Point", "type"}

\* obj_type.mro(): the type and its ancestors, nearest first.
mro(t) ==
    CASE t = "object" -> <<"object">>
      [] t = "bool" -> <<"bool", "int", "object">>
      [] OTHER -> <<t, "object">>

\* What the registry holds for a type: nothing, a constructor that returns
\* the adapter, or a constructor that raises KeyError.
Registrations == {"", "returns", "KeyError"}

\* The registry after the module is loaded: the adapters of int and bool.
built_in_adapters ==
    [t \in TypeNames |-> IF t \in {"int", "bool"} THEN "returns" ELSE ""]

\* The values: their type and whether they have a __conform__ attribute.
Values == [type : TypeNames, conform : BOOLEAN]

Adapter(t) == [by |-> "registry", type |-> t]
Conformed == [by |-> "__conform__", type |-> ""]

\* adapt(value).  adapters[(t, proto)](value) is inside the try: a KeyError
\* of the subscript and a KeyError of the constructor are caught alike.
\* obj_type.mro() is called on the type object: when obj_type is type
\* itself the method is unbound and the call raises TypeError.
adapt(w, value) ==
    LET obj_type == value.type
        anc == Tail(mro(obj_type))
        hits == {i \in 1..Len(anc) : w.adapters[anc[i]] = "returns"}
    IN IF w.adapters[obj_type] = "returns"
       THEN {Return(w, Some(Adapter(obj_type)))}
       ELSE IF obj_type = "type"
       THEN {Raise(w, "TypeError")}
       ELSE IF hits # {}
       THEN {Return(w, Some(Adapter(anc[CHOOSE i \in hits :
                                          \A j \in hits : i <= j])))}
       ELSE IF value.conform
       THEN {Return(w, Some(Conformed))}
       ELSE {Raise(w, "ProgrammingError")}

Adapt == \E value \in Values : Finish("adapt", Some(value), adapt(W, value))

\* adapters[(typ, ISQLQuote)] = callable, as the module does for its
\* built-in adapters and as a caller does for a type of its own.
register_adapter(w, typ, callable) ==
    [w EXCEPT !.adapters[typ] = callable]
RegisterAdapter ==
    \E typ \in TypeNames, callable \in Registrations \ {""} :
        Finish("register_adapter", Some(typ),
               {register_adapter(W, typ, callable)})

\* fetchone with the null flags the library reports for the cells read.
FetchOneNulls ==
    \E nulls \in [1..MaxFields -> BOOLEAN] :
        Finish("fetchone", Some(nulls), fetchone_cells(W, nulls))

SetWithhold ==
    \E value \in BOOLEAN :
        Finish("withhold", Some(value), withhold_setter(W, value))

\* Cursor.__init__, on a connection that is synchronous or asynchronous,
\* followed by the assignment curs.itersize = k.
Construct(k) ==
    /\ closed = FALSE
    /\ description = None
    /\ name \in CursorNames
    /\ no_tuples = TRUE
    /\ rowcount = -1
    /\ rownumber = 0
    /\ pgres = 0
    /\ nfields = None
    /\ arraysize = ARRAYSIZE
    /\ itersize = k
    /\ withhold = FALSE
    /\ query = None
    /\ conn_closed = FALSE
    /\ async \in BOOLEAN
    /\ async_status = None
    /\ async_cursor = FALSE
    /\ live = {}
    /\ held = NoResult
    /\ double_clear = FALSE
    /\ portal = None
    /\ op = "__init__"
    /\ arg = None
    /\ calls = <<>>
    /\ exc = ""
    /\ val = <<>>
    /\ last_status = "never"
    /\ gen_active = FALSE
    /\ gen_rows = <<>>
    /\ result = <<>>
    /\ gen_clean = FALSE
    /\ em_rest = 0
    /\ em_acc = 0
    /\ em_rowcounts = <<>>
    /\ typecasts = {}
    /\ conn_typecasts = {}
    /\ string_types = {UNKNOWN}
    /\ casts = <<>>
    /\ adapters = built_in_adapters

\* A cursor as its constructor leaves it.
Init == Construct(ITERSIZE)

\* A cursor whose itersize the caller has set, as the test does before it
\* iterates.
IterInit == \E k \in 1..MaxIterSize : Construct(k)

\* The calls that run statements, read rows and release the result.
Next ==
    \/ Execute
    \/ ExecuteMany
    \/ ExecuteManyStep
    \/ FetchOne
    \/ FetchMany
    \/ FetchAll
    \/ Close
    \/ Del
    \/ Iter
    \/ Next_

Spec == Init /\ [][Next]_vars

\* Iteration in batches of a small itersize.
IterSpec == IterInit /\ [][Next]_vars

\* Iteration in batches of more than one row, by a for loop that keeps
\* asking the generator for the next row.
LiveInit == Construct(MaxIterSize)

IterLive == LiveInit /\ [][Next]_vars /\ WF_vars(Next_)

\* Every method of the cursor.
ApiNext ==
    \/ Next
    \/ CallProc
    \/ NextSet
    \/ Cast
    \/ Mogrify
    \/ SetInputSizes
    \/ SetOutputSize
    \/ SetWithhold

ApiSpec == Init /\ [][ApiNext]_vars

\* The composition of commands, seen through the first call on an unnamed
\* cursor of a synchronous connection.
ComposeInit == Init /\ name = None /\ ~async
ComposeNext ==
    \/ ExecuteText
    \/ MogrifyText
ComposeSpec == ComposeInit /\ [][ComposeNext]_vars

\* Typecast resolution and row building on an unnamed cursor of a
\* synchronous connection.
CastInit == Init /\ name = None /\ ~async
CastNext ==
    \/ RegisterType
    \/ Cast
    \/ Execute
    \/ FetchOneNulls
CastSpec == CastInit /\ [][CastNext]_vars

\* The adapter registry and adapt() alone.
AdaptNext == RegisterAdapter \/ Adapt
AdaptSpec == Init /\ [][AdaptNext]_vars

\* ------------------------------------------------------------ properties
\* The rows of the result a clean iteration runs over: the held result of
\* an unnamed cursor, the portal of a named one.
TotalRows == IF name = None THEN rowcount ELSE portal[1].total

\* C1: an iteration that starts on an untouched result of N rows yields the
\* rows 0..N-1 in order, each once: what has been yielded so far is a prefix
\* of 0, 1, 2, ..., and an iteration that ended normally yielded N rows.
C1_IterationYieldsEachRowOnce ==
    gen_clean =>
        /\ \A i \in 1..Len(result) : result[i].row = i - 1
        /\ (~gen_active /\ exc = "") => Len(result) = TotalRows

\* C2: an iteration that starts on an untouched finite result ends: the
\* generator, asked again and again for the next row, is exhausted (or has
\* raised) after finitely many steps.
C2_IterationTerminates == (gen_active /\ gen_clean) ~> ~gen_active

\* C3: whenever the row with index i is yielded by an iteration with
\* itersize k, the rownumber its consumer observes is 1 + (i mod k).
C3_RownumberIsBatchIndex ==
    gen_clean =>
        \A i \in 1..Len(result) :
            result[i].rownumber = 1 + (result[i].row % itersize)

\* C4: the cursor never has more than one result handle that it obtained
\* and has not released.
C4_AtMostOneHandle == Cardinality(live) <= 1

\* C5: no result handle is ever handed to PQclear a second time, whichever
\* of execute, command-OK completion and __del__ releases it.
C5_NoDoubleRelease == ~double_clear

\* A __del__ on a cursor whose last statement ended command-OK: its handle
\* was released when the statement completed, and the teardown that follows
\* finds no handle and calls nothing.
C5_Released ==
    /\ op = "__del__"
    /\ last_status = PGRES_COMMAND_OK
    /\ name = None
    /\ calls = <<>>
    /\ pgres = 0
    /\ live = {}

\* C6: an execute on an open cursor that holds a handle and fails has
\* released that handle (PQclear was called on it) by the time it raises.
C6_FailedExecuteReleased ==
    [][(op' = "execute" /\ ~closed /\ pgres # 0 /\ exc' # "")
         => \E i \in 1..Len(calls') :
               calls'[i].f = "PQclear" /\ calls'[i].n = pgres]_vars

EmptyExecuteMany == op' = "executemany" /\ em_rest = 0 /\ em_rest' = 0

ResultStatuses ==
    {PGRES_EMPTY_QUERY, PGRES_COMMAND_OK, PGRES_TUPLES_OK, PGRES_BAD_RESPONSE,
     PGRES_FATAL_ERROR}

\* C8: once the last statement the cursor ran has its result, description
\* is set exactly when the status of that result is tuples-OK, and then has
\* one entry per column.
C8_DescriptionIffTuples ==
    last_status \in ResultStatuses =>
        /\ (description # None) <=> (last_status = PGRES_TUPLES_OK)
        /\ description # None => description = nfields

\* C9: on a cursor that close() has closed, every call other than close()
\* (and the teardown __del__, which is not an operation of the interface)
\* raises InterfaceError and makes no native call.
C9_ClosedIsTerminal ==
    [][(closed /\ op' \notin {"close", "__del__"})
         => (exc' = "InterfaceError" /\ calls' = <<>>)]_vars

FetchOps == {"fetchone", "fetchmany", "fetchall"}

\* The cursor is open and has run no statement, or the last statement it
\* ran ended command-OK.
NoRowSet == ~closed /\ last_status \in {"never", PGRES_COMMAND_OK}

\* C10 as stated: fetchone, fetchmany and fetchall raise ProgrammingError on
\* every open cursor with no row set, named or unnamed.
C10_FetchWithoutRowSet ==
    [][(op' \in FetchOps /\ NoRowSet) => exc' = "ProgrammingError"]_vars

\* C10, amended: on an unnamed cursor they raise ProgrammingError, make no
\* native call and leave the cursor and the library as they were.
C10_UnnamedFetchWithoutRowSet ==
    [][(op' \in FetchOps /\ NoRowSet /\ name = None)
         => (/\ exc' = "ProgrammingError"
             /\ calls' = <<>>
             /\ UNCHANGED <<curVars, pqVars>>)]_vars

\* fetchall refused on an unnamed cursor after a command-OK statement that
\* reported its affected rows.
C10_Refused ==
    /\ op = "fetchall"
    /\ name = None
    /\ ~closed
    /\ last_status = PGRES_COMMAND_OK
    /\ rowcount = MaxRows
    /\ exc = "ProgrammingError"

\* The size a fetchmany call asked for: its argument, or arraysize.
AskedSize == IF arg' = None THEN arraysize ELSE arg'[1]

\* C11: on an open unnamed cursor with a row set and R = rowcount - rownumber
\* >= 0 rows remaining, fetchmany(size) raises nothing, returns Min(size, R)
\* rows (R rows when size < 0) and advances rownumber by the rows returned.
C11_FetchManyClamps ==
    [][(/\ op' = "fetchmany"
        /\ name = None /\ ~closed /\ ~no_tuples
        /\ rowcount - rownumber >= 0)
         => (/\ exc' = ""
             /\ Len(val') = IF AskedSize < 0 THEN rowcount - rownumber
                             ELSE Min(AskedSize, rowcount - rownumber)
             /\ rownumber' = rownumber + Len(val')
             /\ rowcount' = rowcount)]_vars

RECURSIVE SumSeq(_)
SumSeq(q) == IF q = <<>> THEN 0 ELSE Head(q) + SumSeq(Tail(q))

\* C12: when executemany over n parameter sets returns, execute has run n
\* times and rowcount is -1 if any of them reported -1, else the sum of the
\* rowcounts they reported.
C12_ExecuteManyRowcount ==
    (op = "executemany" /\ em_rest = 0 /\ exc = "")
        => /\ Len(em_rowcounts) = arg[1]
           /\ rowcount = IF \E i \in 1..Len(em_rowcounts) :
                                 em_rowcounts[i] = -1
                          THEN -1
                          ELSE SumSeq(em_rowcounts)

\* The native calls of the last call that sent a command to the server.
Sent == SelectSeq(calls, LAMBDA c : c.f \in {"PQexec", "PQsendQuery"})

\* C13: after an execute that returned with a command-OK result the cursor
\* holds no handle (the one it got was passed to PQclear), rows are marked
\* unavailable, description is None, and rowcount is the count PQcmdTuples
\* returned, or -1 when it returned the empty string.
C13_CommandOkReleases ==
    (op = "execute" /\ exc = "" /\ last_status = PGRES_COMMAND_OK)
        => /\ pgres = 0 /\ held = NoResult
           /\ no_tuples /\ rownumber = 0
           /\ description = None
           /\ LET n == Len(calls)
              IN /\ n >= 3
                 /\ calls[n].f = "PQclear" /\ calls[n].n \notin live
                 /\ calls[n - 1].f = "PQcmdTuples"
                 /\ rowcount = IF calls[n - 1].kind = "" THEN -1
                                ELSE calls[n - 1].n
                 /\ calls[n - 2].f = "PQexec"

\* An execute that replaced a row set by a command-OK result with a count.
C13_CountReported ==
    /\ op = "execute"
    /\ last_status = PGRES_COMMAND_OK
    /\ name = None
    /\ rowcount = MaxRows
    /\ Len(calls) = 5

\* C14: an execute on an asynchronous connection that gets as far as
\* sending makes one PQsendQuery and, unless that fails, one PQflush, and
\* interprets no result.  If the send fails it raises OperationalError and
\* leaves the connection's async status and pending cursor as they were; if
\* the flush returns 0 it returns with status needs-read, if 1 with status
\* needs-write, and in both cases this cursor is the pending async cursor.
C14_AsyncExecute ==
    [][(op' = "execute" /\ async /\ Sent' # <<>>)
         => LET n == Len(calls')
                last == calls'[n]
            IN /\ Len(Sent') = 1 /\ Sent'[1].f = "PQsendQuery"
               /\ UNCHANGED <<rowcount, rownumber, no_tuples, nfields>>
               /\ pgres' = 0 /\ description' = None
               /\ \/ /\ last.f = "PQsendQuery"
                     /\ exc' = "OperationalError"
                     /\ UNCHANGED <<async_status, async_cursor>>
                  \/ /\ last.f = "PQflush" /\ calls'[n - 1].f = "PQsendQuery"
                     /\ \/ /\ last.n = 0
                           /\ exc' = ""
                           /\ async_status' = Some(ASYNC_READ)
                           /\ async_cursor'
                        \/ /\ last.n = 1
                           /\ exc' = ""
                           /\ async_status' = Some(ASYNC_WRITE)
                           /\ async_cursor'
                        \/ /\ last.n \notin {0, 1}
                           /\ exc' = "ValueError"
                           /\ UNCHANGED <<async_status, async_cursor>>]_vars

\* An asynchronous execute that returned with output still pending.
C14_NeedsWrite ==
    /\ op = "execute"
    /\ async
    /\ exc = ""
    /\ async_status = Some(ASYNC_WRITE)
    /\ async_cursor
    /\ calls[Len(calls)] = [f |-> "PQflush", kind |-> "", n |-> 1]

\* C15: a synchronous execute that called PQexec raises OperationalError
\* when PQexec returned NULL, ProgrammingError when the result status is
\* empty-query, nothing when it is command-OK or tuples-OK, and
\* OperationalError for every other status.
C15_SyncExecuteOutcome ==
    (op \in {"execute", "executemany"} /\ ~async /\ Sent # <<>>)
        => /\ Len(Sent) = 1 /\ Sent[1].f = "PQexec"
           /\ exc = CASE last_status = "NULL" -> "OperationalError"
                      [] last_status = PGRES_EMPTY_QUERY -> "ProgrammingError"
                      [] last_status \in {PGRES_COMMAND_OK, PGRES_TUPLES_OK}
                           -> ""
                      [] last_status \in ResultStatuses -> "OperationalError"
           /\ last_status = "NULL" <=> pgres = 0 /\ held = NoResult
                                        /\ calls[Len(calls)].f = "PQexec"

\* A synchronous execute refused as an empty query; it holds the result.
C15_EmptyQueryRefused ==
    /\ op = "execute"
    /\ ~async
    /\ last_status = PGRES_EMPTY_QUERY
    /\ exc = "ProgrammingError"
    /\ pgres # 0
    /\ held = EmptyQuery

\* The rows of the result the cursor holds after the step, in order.
HeldRows == [i \in 1..held'.ntuples |-> held'.base + i - 1]

\* The command a fetch method of a named cursor has to send.
FetchCommand ==
    CASE op' = "fetchone" -> Command("FETCH", 1)
      [] op' = "fetchmany" -> Command("FETCH", AskedSize)
      [] op' = "fetchall" -> Command("FETCH_ALL", 0)
      [] op' = "next" -> Command("FETCH", itersize)

\* C16: on an open named cursor every fetchone, fetchmany and fetchall, and
\* every next() of an iteration whose batch is used up, first calls PQexec
\* once with FETCH FORWARD 1 / n / ALL, and if it raises nothing the rows
\* it returns are the rows of that result from its first row on, rowcount
\* is the size of that result and rownumber the number of rows read (for
\* next(): the first row is returned and the rest is kept as the batch).
C16_NamedFetchIsFresh ==
    [][(/\ name # None /\ ~closed
        /\ \/ op' \in FetchOps
           \/ op' = "next" /\ gen_rows = <<>>)
         => (/\ calls' # <<>>
             /\ calls'[1] = [f |-> "PQexec", kind |-> FetchCommand.kind,
                             n |-> FetchCommand.n]
             /\ Len(Sent') = 1
             /\ exc' = "" =>
                  /\ last_status' = PGRES_TUPLES_OK
                  /\ rowcount' = held'.ntuples
                  /\ IF op' = "next"
                     THEN IF HeldRows = <<>>
                          THEN val' = <<>> /\ ~gen_active' /\ rownumber' = 0
                          ELSE /\ <<val'[1]>> \o gen_rows' = HeldRows
                               /\ rownumber' = 1
                     ELSE /\ rownumber' = Len(val')
                          /\ val' = IF op' # "fetchone" THEN HeldRows
                                    ELSE IF HeldRows = <<>> THEN <<>>
                                    ELSE <<HeldRows[1]>>)]_vars

\* A fetchmany on a named cursor that returned the second and third row of
\* the query after an earlier fetch had taken the first.
C16_SecondBatch ==
    /\ op = "fetchmany"
    /\ name = Some("c")
    /\ exc = ""
    /\ val = <<1, 2>>
    /\ rowcount = 2
    /\ rownumber = 2
    /\ Len(calls) = 1

\* C17: close() on an open named cursor calls PQexec once, with CLOSE, as
\* its first native call, and marks the cursor closed only if that raised
\* nothing; on an open unnamed cursor it makes no native call and marks the
\* cursor closed.
C17_CloseSendsClose ==
    [][(op' = "close" /\ ~closed)
         => IF name # None
            THEN /\ calls' # <<>>
                 /\ calls'[1] = [f |-> "PQexec", kind |-> "CLOSE", n |-> 0]
                 /\ Len(Sent') = 1
                 /\ closed' <=> exc' = ""
                 /\ closed' => last_status' = PGRES_COMMAND_OK
            ELSE /\ calls' = <<>>
                 /\ exc' = ""
                 /\ closed']_vars

\* A named cursor closed after its portal had been read from.
C17_NamedClosed ==
    /\ op = "close"
    /\ name = Some("c")
    /\ closed
    /\ exc = ""
    /\ portal = None
    /\ description # None
    /\ calls[1].kind = "CLOSE"

BeginCall == [f |-> "_begin_transaction", kind |-> "", n |-> 0]

\* C18: an execute on an open cursor leaves no description behind except
\* the one of its own tuples-OK result.  If it sends a command, it sends one,
\* and before it the transaction-begin hook was called, once, and then
\* PQclear on the handle the cursor held, if it held one.  If composition
\* fails it calls nothing, if the hook fails it calls only the hook, and in
\* both cases it raises, sends nothing and keeps the handle it held.
C18_ExecuteOrder ==
    [][(op' = "execute" /\ ~closed)
         => /\ description' = None \/ last_status' = PGRES_TUPLES_OK
            /\ Len(SelectSeq(calls', LAMBDA c : c = BeginCall)) <= 1
            /\ IF Sent' # <<>>
               THEN /\ Len(Sent') = 1
                    /\ calls'[1] = BeginCall
                    /\ IF pgres # 0
                       THEN /\ calls'[2] = [f |-> "PQclear", kind |-> "",
                                            n |-> pgres]
                            /\ calls'[3] = Sent'[1]
                       ELSE calls'[2] = Sent'[1]
               ELSE /\ exc' # ""
                    /\ calls' \in {<<>>, <<BeginCall>>}
                    /\ pgres' = pgres]_vars

\* An execute that released the handle of the previous row set before it
\* sent its command and got the next row set.
C18_ReleasedThenSent ==
    /\ op = "execute"
    /\ exc = ""
    /\ last_status = PGRES_TUPLES_OK
    /\ Len(calls) = 3
    /\ calls[1] = BeginCall
    /\ calls[2].f = "PQclear"
    /\ calls[3].f = "PQexec"

\* C19: the command an execute sends is, on a named cursor, the DECLARE
\* of the cursor WITH HOLD if the withhold flag is set and WITHOUT HOLD if
\* it is not, and on an unnamed cursor the statement itself; assigning to
\* withhold on an unnamed cursor raises ProgrammingError and leaves the
\* flag as it was, so that the flag of an unnamed cursor is never set.
C19_DeclareWrapping ==
    [][/\ (op' = "execute" /\ Sent' # <<>>)
          => Sent'[1] = [f |-> Sent'[1].f,
                         kind |-> IF name # None THEN "DECLARE" ELSE "QUERY",
                         n |-> IF name # None /\ withhold THEN 1 ELSE 0]
       /\ (op' = "withhold" /\ name = None)
          => exc' = "ProgrammingError" /\ withhold' = withhold
       /\ name = None => ~withhold']_vars

\* C20: mogrify(template, params) makes no native call, and it raises
\* what the composition step of execute(template, params) raises or else
\* returns the text that step produces, which is the text execute records as
\* its query; for every template and all parameters, None included.
C20_MogrifyIsExecuteComposition ==
    [][LET st == arg'[1]
           c == ExecuteComposition(st.template, st.params)
       IN /\ op' = "mogrify"
             => /\ calls' = <<>>
                /\ exc' = c.exc
                /\ c.exc = "" => val' = c.text
          /\ (op' = "execute" /\ calls' # <<>>)
             => c.exc = "" /\ query' = Some(c.text)]_vars

\* The placeholders of a template as the specification reads it, from
\* character i on and left to right: "E" for the escape %%, "P" for %s, "N"
\* for %(key)s with a key free of ')' and '%', and "X", where the reading
\* stops, for any other use of '%'.
RECURSIVE Tokens(_, _)
Tokens(cmd, i) ==
    LET n == Len(cmd)
        closing == Find(cmd, ")", i + 2, n)
        named == /\ closing >= 0
                 /\ closing + 1 < n
                 /\ At(cmd, closing + 1) = "s"
                 /\ \A j \in (i + 2)..closing : At(cmd, j) # "%"
    IN IF i >= n THEN <<>>
       ELSE IF At(cmd, i) # "%" THEN Tokens(cmd, i + 1)
       ELSE IF i + 1 >= n THEN <<"X">>
       ELSE IF At(cmd, i + 1) = "%" THEN <<"E">> \o Tokens(cmd, i + 2)
       ELSE IF At(cmd, i + 1) = "s" THEN <<"P">> \o Tokens(cmd, i + 2)
       ELSE IF At(cmd, i + 1) = "(" /\ named
       THEN <<"N">> \o Tokens(cmd, closing + 2)
       ELSE <<"X">>
Count(toks, k) == Len(SelectSeq(toks, LAMBDA t : t = k))

\* The template and the parameters of the call the step makes.
Template == arg'[1].template
Params == arg'[1].params

\* C21: composing a template that holds a positional and a named
\* placeholder, in either order, with parameters that are given, raises
\* ValueError.
C21_MixedFormatsRejected ==
    [][(/\ op' = "mogrify"
        /\ Params # PNone
        /\ Count(Tokens(Template, 0), "P") > 0
        /\ Count(Tokens(Template, 0), "N") > 0)
         => exc' = "ValueError"]_vars

\* C22: composing a template whose placeholders are all positional (and
\* which uses '%' for nothing but %s and %%) with a tuple of parameters
\* whose length is not the number of placeholders raises TypeError and
\* returns nothing.
C22_ArgumentCountChecked ==
    [][(/\ op' = "mogrify"
        /\ Params.kind = "tuple"
        /\ Count(Tokens(Template, 0), "P") > 0
        /\ Count(Tokens(Template, 0), "N") = 0
        /\ Count(Tokens(Template, 0), "X") = 0
        /\ Len(Params.items) # Count(Tokens(Template, 0), "P"))
         => exc' = "TypeError" /\ val' = <<>>]_vars

\* The text the specification gives a template that uses '%' for nothing
\* but %%, %s and %(key)s: every %% is one '%', a placeholder is the quoted
\* value of its parameter ("?" if there is none), the rest is itself.
RECURSIVE Expected(_, _, _, _)
Expected(cmd, params, i, k) ==
    LET closing == Find(cmd, ")", i + 2, Len(cmd))
        key == SubSeq(cmd, i + 3, closing)
    IN IF i >= Len(cmd) THEN <<>>
       ELSE IF At(cmd, i) # "%"
       THEN <<At(cmd, i)>> \o Expected(cmd, params, i + 1, k)
       ELSE IF At(cmd, i + 1) = "%"
       THEN <<"%">> \o Expected(cmd, params, i + 2, k)
       ELSE IF At(cmd, i + 1) = "s"
       THEN <<IF k < Len(params.items)
              THEN _getquoted(params.items[k + 1]) ELSE "?">>
            \o Expected(cmd, params, i + 2, k + 1)
       ELSE <<IF HasKey(params.pairs, key)
              THEN _getquoted(Lookup(params.pairs, key)) ELSE "?">>
            \o Expected(cmd, params, closing + 2, k)

\* The templates A %% B in which B is free of '%' and A is a sequence of
\* whole pieces (characters other than '%', escapes, and a '%' with the
\* character that follows it): the %% is then an escape, whatever A is.
RECURSIVE WholePieces(_, _)
WholePieces(cmd, i) ==
    IF i >= Len(cmd) THEN i = Len(cmd)
    ELSE IF At(cmd, i) # "%" THEN WholePieces(cmd, i + 1)
    ELSE WholePieces(cmd, i + 2)
LastEscapes(cmd) ==
    {i \in 1..(Len(cmd) - 1) :
        /\ cmd[i] = "%" /\ cmd[i + 1] = "%"
        /\ \A j \in (i + 2)..Len(cmd) : cmd[j] # "%"
        /\ WholePieces(SubSeq(cmd, 1, i - 1), 0)}
EndsWith(text, tail) ==
    /\ Len(text) >= Len(tail)
    /\ SubSeq(text, Len(text) - Len(tail) + 1, Len(text)) = tail

\* C23: whenever a template is composed with parameters that are given,
\* every %% in it stands in the command as one '%' and nothing else: a
\* template that uses '%' only for %%, %s and %(key)s composes to its text
\* with one '%' for each %%, and whatever precedes the last %% of a
\* template, the command ends with '%' and the text that follows that %%.
C23_EscapeIsOnePercent ==
    [][(op' = "mogrify" /\ Params # PNone /\ exc' = "")
         => /\ Count(Tokens(Template, 0), "X") = 0
               => val' = Expected(Template, Params, 0, 0)
            /\ \A i \in LastEscapes(Template) :
                 EndsWith(val', <<"%">> \o
                                SubSeq(Template, i + 2, Len(Template)))]_vars

\* Whether the first use of '%' in a template, from character i on, that
\* is neither %%, %s nor %(key)s is a '%' or a %(key) followed by a
\* character that is not a format character of the specification.
RECURSIVE BadFormatChar(_, _)
BadFormatChar(cmd, i) ==
    LET n == Len(cmd)
        closing == Find(cmd, ")", i + 2, n)
        complete == /\ closing >= 0
                    /\ closing + 1 < n
                    /\ \A j \in (i + 2)..closing : At(cmd, j) # "%"
    IN IF i >= n THEN FALSE
       ELSE IF At(cmd, i) # "%" THEN BadFormatChar(cmd, i + 1)
       ELSE IF i + 1 >= n THEN FALSE
       ELSE IF At(cmd, i + 1) \in {"%", "s"} THEN BadFormatChar(cmd, i + 2)
       ELSE IF At(cmd, i + 1) # "(" THEN TRUE
       ELSE IF ~complete THEN FALSE
       ELSE IF At(cmd, closing + 1) = "s"
       THEN BadFormatChar(cmd, closing + 2)
       ELSE TRUE

\* C24: composing, with parameters that are given, a template in which a
\* '%' is followed by a character other than '%', '(' and 's', or a
\* %(key) by a character other than 's', raises ValueError and returns
\* nothing.
C24_UnsupportedFormatChar ==
    [][(op' = "mogrify" /\ Params # PNone /\ BadFormatChar(Template, 0))
         => exc' = "ValueError" /\ val' = <<>>]_vars

\* The typecast the specification gives a wire type: the entry of the
\* cursor if it has one, else the connection's, else the module's, else the
\* module's entry for UNKNOWN.
Resolved(oid) ==
    IF oid \in typecasts THEN CastEntry("cursor", oid)
    ELSE IF oid \in conn_typecasts THEN CastEntry("connection", oid)
    ELSE IF oid \in string_types THEN CastEntry("global", oid)
    ELSE CastEntry("global", UNKNOWN)
TypecastCalls == SelectSeq(calls', LAMBDA c : c.f = "typecast")
NotNull == SelectSeq([i \in 1..nfields'[1] |-> i], LAMBDA i : ~arg'[1][i])

\* C25: cast(oid, s) raises nothing and applies the typecast the lookup
\* order gives (cursor, connection, module, module's UNKNOWN); the
\* typecasts an execute caches for the columns of its row set are the ones
\* that order gives; and a fetchone that returns a row returns None for
\* every NULL cell and, for every other cell, the value of the column's
\* cached typecast, which it calls for those cells only, once each.
C25_TypecastResolution ==
    [][/\ op' = "cast"
          => /\ exc' = ""
             /\ val' = <<Resolved(arg'[1])>>
             /\ TypecastCalls =
                  <<[f |-> "typecast", kind |-> Resolved(arg'[1]).table,
                     n |-> Resolved(arg'[1]).oid]>>
       /\ (op' = "execute" /\ exc' = "" /\ last_status' = PGRES_TUPLES_OK)
          => casts' = [i \in 1..nfields'[1] |-> Resolved(PQftype(i))]
       /\ (op' = "fetchone" /\ exc' = "" /\ val' # <<>>)
          => /\ \A i \in 1..nfields'[1] :
                  val'[1][i] = IF arg'[1][i] THEN None ELSE Some(casts[i])
             /\ TypecastCalls =
                  [k \in 1..Len(NotNull) |->
                      [f |-> "typecast", kind |-> casts[NotNull[k]].table,
                       n |-> casts[NotNull[k]].oid]]]_vars

\* A fetchone that returned a row with a NULL cell, on a cursor that has
\* its own typecast for the column's wire type: the typecast was not
\* called.
C25_NullCellNotCast ==
    /\ op = "fetchone"
    /\ exc = ""
    /\ val = << <<None>> >>
    /\ casts[1] = CastEntry("cursor", PQftype(1))
    /\ calls = <<>>


\* ------------------------------------------------------------------ C26
\* The first type of the value's method-resolution order, the value's own
\* type included, that has a registration.
FirstRegistered(value) ==
    LET chain == mro(value.type)
        hits == {i \in 1..Len(chain) : adapters[chain[i]] # ""}
    IN IF hits = {} THEN None
       ELSE Some(chain[CHOOSE i \in hits : \A j \in hits : i <= j])

\* C26: adapt(value) returns the adapter registered for the value's own
\* type if there is one, otherwise the adapter registered for the first
\* ancestor in method-resolution order that has one, otherwise the result
\* of the value's __conform__ hook if it has one, and otherwise fails with
\* the adaptation error; a registration always precedes the hook.
C26_AdaptLookup ==
    [][op' = "adapt" =>
        LET value == arg'[1]
        IN IF FirstRegistered(value) # None
           THEN exc' = "" /\ val' = Some(Adapter(FirstRegistered(value)[1]))
           ELSE IF value.conform
           THEN exc' = "" /\ val' = Some(Conformed)
           ELSE exc' = "ProgrammingError"]_vars


\* ------------------------------------------------------------------ C27
\* An open unnamed cursor that holds the row set of its last statement and
\* has read the rows before rownumber.
RowSetHeld ==
    /\ name = None /\ ~closed /\ ~conn_closed /\ Idle
    /\ ~no_tuples /\ pgres # 0 /\ description # None
    /\ held.status = PGRES_TUPLES_OK
    /\ rowcount = held.ntuples
    /\ rownumber \in 0..rowcount

\* The rows from to upto - 1 of the held result, in result order.
RowsBetween(from, upto) == [i \in 1..(upto - from) |-> from + i - 1]

\* C27: on an unnamed cursor a row-producing execute of N rows leaves the
\* offset at 0, and from then on every fetchone, fetchmany and fetchall
\* returns the rows from the old offset up to the new one, in result order,
\* and moves the offset forward, never past N: fetchone by one row while
\* rows are left, fetchall to N.  So the calls return the rows 0..N-1 in
\* order, each once; at offset N fetchone returns None, fetchmany and
\* fetchall return an empty list, and the offset stays at N.
C27_FetchSequence ==
    [][/\ (op' = "execute" /\ exc' = "" /\ name = None /\ ~no_tuples')
           => RowSetHeld' /\ rownumber' = 0
       /\ (RowSetHeld /\ op' \in FetchOps)
           => /\ exc' = ""
              /\ RowSetHeld'
              /\ rowcount' = rowcount /\ held' = held
              /\ rownumber' \in rownumber..rowcount
              /\ val' = RowsBetween(rownumber, rownumber')
              /\ op' = "fetchone"
                    => rownumber' = Min(rownumber + 1, rowcount)
              /\ op' = "fetchall" => rownumber' = rowcount]_vars

\* An unnamed cursor has returned both rows of a two-row result, the last
\* one by fetchone, fetchmany or fetchall.
C27_LastRowReturned ==
    /\ RowSetHeld /\ op \in FetchOps /\ exc = ""
    /\ rowcount = 2 /\ rownumber = 2
    /\ val # <<>> /\ val[Len(val)] = 1


\* ------------------------------------------------------------------ C28
\* C28: whenever check_no_tuples lets a fetch through on an unnamed cursor
\* (the cursor is open and rows are marked available), the cursor holds a
\* live result handle and its description is set.
C28_FetchableHoldsResult ==
    (name = None /\ ~closed /\ ~no_tuples)
        => (pgres # 0 /\ pgres \in live /\ description # None)

====
